---- MODULE Spec2Model ----
(***************************************************************************)
(* A model of the download and installation pipeline of curseforgepy:      *)
(*   - download.py : DownloadManager._attempt_download and                 *)
(*                   DownloadManager.download_url_to_folder                *)
(*   - installer.py: ModPackInstaller.install_from_manifest                *)
(*   - fileops.py  : is_same_file, atomic_write, write_stream_to_tempfile  *)
(*   - utils.py    : exponential_backoff, parse_retry_after                *)
(*                                                                         *)
(* Text (error messages, header values) is a sequence of one-character     *)
(* strings, so that Python's substring test and str.isdigit are computed.  *)
(* File contents are sequences of bytes.  Times are in milliseconds.       *)
(***************************************************************************)
EXTENDS Integers, Sequences, FiniteSets, TLC

\* ------------------------------------------------------------------ bounds

\* Length in bytes of the remote resource.
ResLen == 2
\* Largest attempt budget explored for download_url_to_folder.
MaxAttempts == 2
\* Largest Retry-After value (seconds) the server declares.
MaxRetryAfter == 2
\* Largest number of entries in the manifest.
NItems == 2

\* ------------------------------------------------------- program constants

\* DownloadManager.backoff_base default, 0.6 s
BackoffBase == 600
\* exponential_backoff: factor
BackoffFactor == 2
\* exponential_backoff: max_interval, 30 s
MaxInterval == 30000
\* exponential_backoff: jitter of +/- 10 percent
JitterPct == 10

\* ------------------------------------------------------------------- text

DigitChars == <<"0","1","2","3","4","5","6","7","8","9">>

IsDigitChar(c) == \E i \in 1..Len(DigitChars) : DigitChars[i] = c

DigitVal(c) == (CHOOSE i \in 1..Len(DigitChars) : DigitChars[i] = c) - 1

\* str(n) for an integer n >= 0
RECURSIVE ToStr(_)
ToStr(n) == IF n < 10 THEN <<DigitChars[n + 1]>>
            ELSE ToStr(n \div 10) \o <<DigitChars[(n % 10) + 1]>>

\* str(x) for a float x holding a whole number n: "2.0"
FloatStr(n) == ToStr(n) \o <<".","0">>

\* int(s) for a string of digits
RECURSIVE IntOf(_)
IntOf(s) == IF Len(s) = 0 THEN 0
            ELSE 10 * IntOf(SubSeq(s, 1, Len(s) - 1)) + DigitVal(s[Len(s)])

\* s.strip()
RECURSIVE Strip(_)
Strip(s) == IF Len(s) > 0 /\ s[1] = " " THEN Strip(Tail(s))
            ELSE IF Len(s) > 0 /\ s[Len(s)] = " " THEN Strip(SubSeq(s, 1, Len(s) - 1))
            ELSE s

\* s.isdigit()
IsDigit(s) == Len(s) > 0 /\ \A i \in 1..Len(s) : IsDigitChar(s[i])

\* sub in s
Contains(s, sub) ==
    \E i \in 1..(Len(s) - Len(sub) + 1) : SubSeq(s, i, i + Len(sub) - 1) = sub

\* None, for an optional text
None == [present |-> FALSE, text |-> <<>>]
Some(s) == [present |-> TRUE, text |-> s]

\* ----------------------------------------------------------------- utils.py

\* parse_retry_after(value): seconds.  None gives 0; a string of digits gives
\* its value; anything else goes to the HTTP-date parser, which rejects every
\* text of this model (none is an RFC 7231 date), giving 0.
parse_retry_after(value) ==
    IF ~value.present THEN 0
    ELSE IF IsDigit(Strip(value.text)) THEN IntOf(Strip(value.text))
    ELSE 0

Min(a, b) == IF a < b THEN a ELSE b
Max(a, b) == IF a > b THEN a ELSE b

RECURSIVE Pow(_, _)
Pow(b, e) == IF e = 0 THEN 1 ELSE b * Pow(b, e - 1)

\* The jitter is uniform in [-10%, +10%]: the two ends of the range.
Jitters == {0 - JitterPct, JitterPct}

\* exponential_backoff(attempt, base) in milliseconds, for a drawn jitter
exponential_backoff(attempt, base, jitter) ==
    LET raw   == base * Pow(BackoffFactor, attempt - 1)
        delay == Min(raw, MaxInterval)
    IN  Max(0, delay + ((delay * jitter) \div 100))

\* ---------------------------------------------------------------- files

Absent == [exists |-> FALSE, data |-> <<>>]
File(d) == [exists |-> TRUE, data |-> d]

\* The remote resource, and a body that is not the resource.
Resource == [i \in 1..ResLen |-> i]
Corrupt == [i \in 1..ResLen |-> 0]
\* What the destination may hold before the call.
OldContent == <<9>>

\* ------------------------------------------------------------ checksums

\* An algorithm name or a hex digest, with its letter case.
Key(name, up) == [name |-> name, up |-> up]
\* hashlib's hexdigest of `data` under `algo`: lowercase, and (an ideal hash)
\* equal for equal data only.
Digest(algo, data) == [data |-> data, up |-> FALSE, algo |-> algo]
EmptyHex == [data |-> <<>>, up |-> FALSE, algo |-> ""]
Lower(s) == [s EXCEPT !.up = FALSE]
Upper(s) == [s EXCEPT !.up = TRUE]

Algos == {"sha1", "sha256", "md5"}

\* An item of the expected_hashes dict: algorithm name and expected digest
HashItem(k, v) == [k |-> k, v |-> v]

\* is_same_file(local_path, expected_hashes): expected_hashes is the dict as
\* the sequence of its (key, value) items.  [raised, same]
is_same_file(file, expected) ==
    IF ~file.exists THEN [raised |-> TRUE, same |-> FALSE]
    ELSE IF Len(expected) = 0 THEN [raised |-> FALSE, same |-> FALSE]
    ELSE LET computed(algo) == Digest(algo, file.data)
             \* norm_expected: items with a non-empty value, lowercased
             kept == {i \in 1..Len(expected) : expected[i].v # EmptyHex}
             \* the dict comprehension: of two items whose keys are equal
             \* in lower case, the later one replaces the earlier one
             norm_expected ==
                 {i \in kept : \A j \in kept :
                                  j > i => Lower(expected[j].k) # Lower(expected[i].k)}
         IN  [raised |-> FALSE,
              same |-> \E i \in norm_expected :
                          /\ Lower(expected[i].k).name \in Algos
                          /\ Lower(computed(Lower(expected[i].k).name))
                               = Lower(Lower(expected[i].v))]

\* ------------------------------------------------------------- download.py

VARIABLES
    \* --- one call of DownloadManager.download_url_to_folder
    max_attempts,     \* max_retries or self.max_retries
    resume,           \* the resume argument
    expected_hashes,  \* the expected_hashes argument, as a sequence of items
    part,             \* the file at temp_part_path(dest_path)
    dest,             \* the file at dest_path
    dest0,            \* the file at dest_path when the call began
    attempts,         \* the loop's attempts counter
    requests,         \* calls of _request_stream so far
    all_5xx,          \* every request so far was answered with a 5xx status
    result,           \* the DownloadResult of the last attempt / returned
    last_err,         \* the loop's last_err
    last,             \* the last attempt: its request, response and open mode
    wait,             \* milliseconds slept after the last failed attempt
    pc,               \* "loop": in the while loop; "returned": the call returned
    \* --- one call of ModPackInstaller.install_from_manifest
    ipc,              \* where the calling thread is
    args,             \* the arguments and settings read so far
    plan,             \* the InstallItems the manifest and the client give
    overrides,        \* the overrides tree of the manifest source
    root,             \* the install root
    root0,            \* the install root when the call began
    backup,           \* the backup copy (backup_path), when one was made
    task,             \* per item: its worker's position and locals
    results,          \* results, in completion order
    report            \* the ModPackInstallReport

dlVars == <<max_attempts, resume, expected_hashes, part, dest, dest0, attempts,
            requests, all_5xx, result, last_err, last, wait, pc>>

instVars == <<ipc, args, plan, overrides, root, root0, backup, task, results, report>>

VARIABLES
    \* --- build_plan_from_manifest and the worker pool of install_from_manifest
    manifest,         \* the manifest's "files" entries
    client,           \* what the client answers for a (projectID, fileID)
    items,            \* the InstallItems build_plan_from_manifest returned
    max_workers,      \* the pool's max_workers
    worker,           \* per item: "queued", "writing" its .part file, "done"
    ppc,              \* "plan": before the plan is built; "pool"; "joined"
    \* --- one call of fileops.atomic_write
    aw_pc,            \* the statement the call is at
    aw_data,          \* the data argument
    aw_chunks,        \* the chunks argument, and then what is left to write
    aw_dest,          \* the file at dest_path
    aw_dest0,         \* the file at dest_path when the call began
    aw_tmp,           \* the temporary file
    aw_seen,          \* what a reader of dest_path has seen since the call began
    aw_failed,        \* the steps that failed
    \* --- one call of fileops.is_same_file
    cs_pc,            \* "call" or "returned"
    cs_file,          \* the file at local_path
    cs_expected,      \* the expected_hashes argument, as a sequence of items
    cs_out,           \* what the call returned
    \* --- one call of a function that takes no step of its own
    fn_pc,            \* "idle"; "call"; "returned" or the exception raised
    fn_in,            \* the arguments and the files the call finds
    fn_out            \* what the call returned, and the files it left

poolVars == <<manifest, client, items, max_workers, worker, ppc>>

awVars == <<aw_pc, aw_data, aw_chunks, aw_dest, aw_dest0, aw_tmp, aw_seen, aw_failed>>

csVars == <<cs_pc, cs_file, cs_expected, cs_out>>

fnVars == <<fn_pc, fn_in, fn_out>>

\* The variables of the calls of fileops.py and of the pool
libVars == <<poolVars, awVars, csVars, fnVars>>

vars == <<dlVars, instVars, libVars>>

\* Message texts of download.py
TxtRateLimited == <<"4","2","9"," ","R","a","t","e"," ","l","i","m","i","t","e","d",";"," ","r","e","t","r","y","-","a","f","t","e","r","=">>
TxtRange == <<"4","1","6"," ","R","a","n","g","e"," ","N","o","t"," ","S","a","t","i","s","f","i","a","b","l","e",":"," ","r","e","m","o","v","e","d"," ","l","o","c","a","l"," ",".","p","a","r","t",";"," ","r","e","t","r","y","i","n","g"," ","f","r","e","s","h"," ","r","e","c","o","m","m","e","n","d","e","d">>
TxtChecksum == <<"C","h","e","c","k","s","u","m"," ","m","i","s","m","a","t","c","h"," ","a","f","t","e","r"," ","d","o","w","n","l","o","a","d">>
\* f"Checksum verification error: {exc}"
TxtVerification == <<"C","h","e","c","k","s","u","m"," ","v","e","r","i","f","i","c","a","t","i","o","n"," ","e","r","r","o","r",":"," ","F","i","l","e"," ","n","o","t"," ","f","o","u","n","d">>
TxtHttp == <<"H","T","T","P"," ">>
TxtColon == <<":"," ">>
Txt429 == <<"4","2","9">>
Txt416 == <<"4","1","6">>
TxtChecksumMismatch == <<"C","h","e","c","k","s","u","m"," ","m","i","s","m","a","t","c","h">>
TxtUnknown == <<"U","n","k","n","o","w","n"," ","d","o","w","n","l","o","a","d"," ","f","a","i","l","u","r","e">>
\* str(e) of a transport exception, of a stream broken while reading
TxtConnection == <<"C","o","n","n","e","c","t","i","o","n"," ","a","b","o","r","t","e","d",".">>
TxtBroken == <<"C","o","n","n","e","c","t","i","o","n"," ","b","r","o","k","e","n",":"," ","I","n","c","o","m","p","l","e","t","e","R","e","a","d">>

\* A response of the transport: an exception, or a status with its
\* Retry-After header and a body of which `cut` bytes arrive
Response(kind, status, ra, body, cut) ==
    [kind |-> kind, status |-> status, body |-> body, cut |-> cut, retry_after |-> ra]

\* resp.reason
Reason(status) ==
    CASE status = 404 -> <<"N","o","t"," ","F","o","u","n","d">>
      [] status = 410 -> <<"G","o","n","e">>
      [] status = 416 -> <<"R","a","n","g","e"," ","N","o","t"," ","S","a","t","i","s","f","i","a","b","l","e">>
      [] status = 429 -> <<"T","o","o"," ","M","a","n","y"," ","R","e","q","u","e","s","t","s">>
      [] status = 500 -> <<"I","n","t","e","r","n","a","l"," ","S","e","r","v","e","r"," ","E","r","r","o","r">>
      [] OTHER -> <<"S","e","r","v","i","c","e"," ","U","n","a","v","a","i","l","a","b","l","e">>

\* f"HTTP {resp.status_code}: {resp.reason}"
HttpError(status) == TxtHttp \o ToStr(status) \o TxtColon \o Reason(status)

\* The Retry-After headers a server sends: none, or a number of seconds.
RetryAfterValues == {None} \cup {Some(ToStr(n)) : n \in 0..MaxRetryAfter}

\* What the transport may answer to a request (with a Range header from
\* `offset` when `ranged`): an exception, an error status, 200 with a whole
\* body (the server ignores Range), or 206 with the rest of the resource.
\* cut = Len(body): the body streams to its end; cut < Len(body): the stream
\* breaks after `cut` bytes.
Responses(ranged, offset) ==
    {Response("exception", 0, None, <<>>, 0)}
    \cup {Response("http", s, None, <<>>, 0) : s \in {404, 410, 416, 500, 503}}
    \cup {Response("http", 429, h, <<>>, 0) : h \in RetryAfterValues}
    \cup {Response("http", 200, None, b, c) : b \in {Resource, Corrupt}, c \in 0..ResLen}
    \cup (IF ranged /\ offset < ResLen
          THEN {Response("http", 206, None, SubSeq(Resource, offset + 1, ResLen), c) :
                  c \in 0..(ResLen - offset)}
          ELSE {})

Streams(resp) == resp.kind = "http" /\ resp.status < 400
Complete(resp) == Streams(resp) /\ resp.cut = Len(resp.body)

DownloadResult(success, bytes, error, path) ==
    [attempts |-> 1, success |-> success, bytes |-> bytes, error |-> error, path |-> path]

\* A request that asks for a range whenever resume is on
RangeRequest_always(p) == [ranged |-> resume, offset |-> Len(p.data)]

\* _attempt_download, lines 130-134: the Range header and existing_size
RangeRequest(p) ==
    IF resume /\ p.exists THEN [ranged |-> TRUE, offset |-> Len(p.data)]
    ELSE [ranged |-> FALSE, offset |-> 0]

\* _attempt_download, line 187: the mode the .part file is opened in
OpenMode(existing_size) == IF existing_size > 0 /\ resume THEN "ab" ELSE "wb"

\* _attempt_download, lines 147-155: 416 removes the .part file
OnRangeNotSatisfiable(p, d) ==
    [part |-> Absent, dest |-> d,
     result |-> DownloadResult(FALSE, 0, Some(TxtRange), FALSE)]

\* _attempt_download, lines 157-161
OnRateLimited(resp, p, d) ==
    [part |-> p, dest |-> d,
     result |-> DownloadResult(FALSE, 0,
                   Some(TxtRateLimited \o FloatStr(parse_retry_after(resp.retry_after))),
                   FALSE)]

\* A verification that leaves a mismatching file at dest_path
VerifyPromoted_keep(p, d, written) ==
    [part |-> p, dest |-> d,
     result |-> DownloadResult(is_same_file(d, expected_hashes).same, written,
                               IF is_same_file(d, expected_hashes).same THEN None
                               ELSE Some(TxtChecksum), TRUE)]

\* _attempt_download, lines 239-257: verification of the promoted file
VerifyPromoted(p, d, written) ==
    IF Len(expected_hashes) > 0
    THEN LET chk == is_same_file(d, expected_hashes)
         IN  IF chk.raised
             THEN [part |-> p, dest |-> d,
                   result |-> DownloadResult(FALSE, written, Some(TxtVerification), TRUE)]
             ELSE IF ~chk.same
             THEN [part |-> p, dest |-> Absent,
                   result |-> DownloadResult(FALSE, written, Some(TxtChecksum), TRUE)]
             ELSE [part |-> p, dest |-> d,
                   result |-> DownloadResult(TRUE, written, None, TRUE)]
    ELSE [part |-> p, dest |-> d, result |-> DownloadResult(TRUE, written, None, TRUE)]

\* _attempt_download, lines 183-237: stream the body into .part, promote it
StreamToPart(resp, p, d) ==
    LET existing_size == RangeRequest(p).offset
        mode    == OpenMode(existing_size)
        base    == IF mode = "ab" THEN p.data ELSE <<>>
        got     == SubSeq(resp.body, 1, resp.cut)
        written == existing_size + Len(got)
    IN  IF ~Complete(resp)
        THEN \* the stream broke: the .part file is kept for resume
             [part |-> File(base \o got), dest |-> d,
              result |-> DownloadResult(FALSE, written, Some(TxtBroken), FALSE)]
        ELSE \* os.replace(part, dest_path), then the checksum
             VerifyPromoted(Absent, File(base \o got), written)

\* _attempt_download(url, dest_path, expected_hashes, progress_cb, resume):
\* one attempt on the files p (.part) and d (dest_path), answered by resp
attempt_download(resp, p, d) ==
    IF resp.kind = "exception"
    THEN [part |-> p, dest |-> d,
          result |-> DownloadResult(FALSE, 0, Some(TxtConnection), FALSE)]
    ELSE IF resp.status \in {404, 410}
    THEN [part |-> p, dest |-> d,
          result |-> DownloadResult(FALSE, 0, Some(HttpError(resp.status)), FALSE)]
    ELSE IF resp.status = 416 THEN OnRangeNotSatisfiable(p, d)
    ELSE IF resp.status = 429 THEN OnRateLimited(resp, p, d)
    ELSE IF resp.status >= 400
    THEN [part |-> p, dest |-> d,
          result |-> DownloadResult(FALSE, 0, Some(HttpError(resp.status)), FALSE)]
    ELSE StreamToPart(resp, p, d)

\* Python truthiness of result.error, and the two substring tests
Truthy(err) == err.present /\ err.text # <<>>
IsRateLimited(err) == Truthy(err) /\ Contains(err.text, Txt429)
IsRangeOrChecksum(err) ==
    Truthy(err) /\ (Contains(err.text, Txt416) \/ Contains(err.text, TxtChecksumMismatch))

\* download_url_to_folder, lines 315-321: the sleep after a 429
RateLimitWait(err, attempt, jitter) ==
    LET ra_val == parse_retry_after(err)
    IN  IF ra_val > 0 THEN ra_val * 1000
        ELSE exponential_backoff(attempt, BackoffBase, jitter)

\* A loop that tests attempts <= max_attempts
MayAttempt_inclusive(n) == n <= max_attempts

\* download_url_to_folder, line 306: the loop's guard
MayAttempt(n) == n < max_attempts

\* download_url_to_folder, lines 306-345: one iteration of the while loop,
\* and the return that follows it when the loop ends
Iterate(resp, jitter) ==
    /\ pc = "loop"
    /\ MayAttempt(attempts)
    /\ \E out \in {attempt_download(resp, part, dest)} :
       \E rl \in {IsRateLimited(out.result.error)} :
       \E rc \in {~rl /\ IsRangeOrChecksum(out.result.error)} :
         LET n    == attempts + 1
             req  == RangeRequest(part)
             r    == out.result
             err  == r.error
         IN  /\ attempts' = n
             /\ requests' = requests + 1
             /\ all_5xx' = (all_5xx /\ resp.kind = "http" /\ resp.status >= 500)
             /\ last' = [ranged |-> req.ranged, offset |-> req.offset, resp |-> resp,
                         mode |-> IF Streams(resp) THEN OpenMode(req.offset) ELSE "none"]
             /\ dest' = out.dest
             /\ IF r.success
                THEN /\ result' = [r EXCEPT !.attempts = n]
                     /\ part' = out.part
                     /\ UNCHANGED <<wait, last_err>>
                     /\ pc' = "returned"
                ELSE /\ part' = IF rc THEN Absent ELSE out.part
                     /\ wait' = IF rl THEN RateLimitWait(err, n, jitter)
                                ELSE exponential_backoff(n, BackoffBase, jitter)
                     /\ last_err' = IF rl \/ rc THEN last_err ELSE err
                     /\ IF MayAttempt(n)
                        THEN result' = r /\ pc' = "loop"
                        ELSE /\ result' = [r EXCEPT !.attempts = n,
                                              !.error = IF Truthy(err) THEN err
                                                        ELSE IF Truthy(last_err') THEN last_err'
                                                        ELSE Some(TxtUnknown)]
                             /\ pc' = "returned"
    /\ UNCHANGED <<max_attempts, resume, expected_hashes, dest0>>
    /\ UNCHANGED <<instVars, libVars>>

\* The iterations of the loop, by what the transport answers
AttemptException ==
    \E j \in Jitters : Iterate(Response("exception", 0, None, <<>>, 0), j)

AttemptNotFound ==
    \E j \in Jitters, s \in {404, 410} : Iterate(Response("http", s, None, <<>>, 0), j)

AttemptRangeNotSatisfiable ==
    \E j \in Jitters : Iterate(Response("http", 416, None, <<>>, 0), j)

AttemptRateLimited ==
    \E j \in Jitters, h \in RetryAfterValues : Iterate(Response("http", 429, h, <<>>, 0), j)

AttemptServerError ==
    \E j \in Jitters, s \in {500, 503} : Iterate(Response("http", s, None, <<>>, 0), j)

AttemptStream ==
    \E j \in Jitters :
      \E resp \in {x \in Responses(RangeRequest(part).ranged, RangeRequest(part).offset) :
                      Streams(x)} :
         Iterate(resp, j)

\* The calls explored: every budget, resume on and off, no expected hash or
\* the resource's hash (in either letter case); a .part file left by an
\* earlier call (absent, empty, a prefix of the resource, or stale bytes); a
\* destination that is absent or holds an older file.
ExpectedChoices ==
    { <<>>,
      <<HashItem(Key("sha1", FALSE), Digest("sha1", Resource))>>,
      <<HashItem(Key("sha1", TRUE), Upper(Digest("sha1", Resource)))>> }

PartChoices ==
    {Absent} \cup {File(SubSeq(Resource, 1, n)) : n \in 0..(ResLen - 1)}
             \cup {File(OldContent \o Resource)}

NoResult == [attempts |-> 0, success |-> FALSE, bytes |-> 0, error |-> None, path |-> FALSE]
NoAttempt == [ranged |-> FALSE, offset |-> 0, resp |-> Response("none", 0, None, <<>>, 0),
              mode |-> "none"]

DownloadInit ==
    /\ max_attempts \in 1..MaxAttempts
    /\ resume \in BOOLEAN
    /\ expected_hashes \in ExpectedChoices
    /\ part \in PartChoices
    /\ dest \in {Absent, File(OldContent)}
    /\ dest0 = dest
    /\ attempts = 0
    /\ requests = 0
    /\ all_5xx = TRUE
    /\ result = NoResult
    /\ last_err = None
    /\ last = NoAttempt
    /\ wait = 0
    /\ pc = "loop"

DownloadNext ==
    \/ AttemptException
    \/ AttemptNotFound
    \/ AttemptRangeNotSatisfiable
    \/ AttemptRateLimited
    \/ AttemptServerError
    \/ AttemptStream

\* ---------------------------------------------------------------- fileops.py

NoBytes == [present |-> FALSE, bytes |-> <<>>]
Bytes(b) == [present |-> TRUE, bytes |-> b]

\* The chunks argument: None, or the chunks an iterable yields
NoChunks == [present |-> FALSE, chunks |-> <<>>]
Chunks(cs) == [present |-> TRUE, chunks |-> cs]

\* atomic_write(dest_path, data, chunks) on the destination file d:
\* ValueError unless exactly one of data and chunks is given.  [raised, dest]
RECURSIVE Joined_chunks(_)
Joined_chunks(cs) == IF cs = <<>> THEN <<>> ELSE Head(cs) \o Joined_chunks(Tail(cs))

atomic_write(d, data, chunks) ==
    IF data.present = chunks.present
    THEN [raised |-> TRUE, dest |-> d]
    ELSE [raised |-> FALSE,
          dest |-> File(IF data.present THEN data.bytes
                        ELSE Joined_chunks(chunks.chunks))]

\* write_stream_to_tempfile(resp, dest, resume) on the files p (.part) and d
\* (dest).  [raised, part, dest]: raised is the DownloadError it ends with.
write_stream_to_tempfile(resp, p, d, resume_arg) ==
    LET mode    == IF resume_arg /\ p.exists THEN "ab" ELSE "wb"
        base    == IF mode = "ab" THEN p.data ELSE <<>>
        written == File(base \o SubSeq(resp.body, 1, resp.cut))
    IN  IF ~Complete(resp)
        THEN [raised |-> TRUE, part |-> written, dest |-> d]
        ELSE LET aw == atomic_write(d, NoBytes, NoChunks)
             IN  IF aw.raised
                 THEN [raised |-> TRUE, part |-> written, dest |-> aw.dest]
                 ELSE \* os.replace(part, dest)
                      [raised |-> FALSE, part |-> Absent, dest |-> written]

\* ------------------------------------------------------------- installer.py

Items == 1..NItems

\* paths.py, InstallPaths.ensure_dirs: the standard directories
StdDirs == {"mods", "resourcepacks", "shaderpacks", "config", "overrides", "saves", "logs"}

\* Files of the install root: each item's target_path and its .part sibling
\* in the mods folder, and a file of the user's in the config folder.
TargetOf(i) == [kind |-> "target", dir |-> "mods", item |-> i]
PartOf(i) == [kind |-> "part", dir |-> "mods", item |-> i]
ConfigFile == [kind |-> "target", dir |-> "config", item |-> 0]
Names == {TargetOf(i) : i \in Items} \cup {PartOf(i) : i \in Items} \cup {ConfigFile}

\* A directory tree: whether it exists, its directories, its files.
NoFiles == [n \in Names |-> Absent]
NoTree == [exists |-> FALSE, dirs |-> {}, files |-> NoFiles]

\* InstallPaths.ensure_dirs
ensure_dirs(t) == [t EXCEPT !.exists = TRUE, !.dirs = StdDirs]

\* Path.mkdir(parents=True, exist_ok=True) of a folder of the root
mkdir(t, d) == [t EXCEPT !.exists = TRUE, !.dirs = @ \cup {d}]

\* What the installer reports as an item's error.  It never reads the text.
Err(kind, status) == [kind |-> kind, status |-> status]
NoErr == Err("none", 0)

InstallResult(i, success, bytes, n, error, checksum_ok) ==
    [attempts |-> n, success |-> success, error |-> error, item |-> i,
     checksum_ok |-> checksum_ok, downloaded_bytes |-> bytes]

EmptyReport == [results |-> <<>>, success |-> FALSE, total_files |-> 0, successful |-> 0,
                failed |-> 0]

Planned == DOMAIN plan

\* install_from_manifest, lines 433-441: the file is there and matches
SkipEligible(i) ==
    LET d == root.files[TargetOf(i)]
    IN  /\ d.exists
        /\ Len(plan[i].expected_hashes) > 0
        /\ is_same_file(d, plan[i].expected_hashes).same

\* A skip that reports the size of the file in place
SkipBytes_size(d) == Len(d.data)

\* line 437: computed.get("size", 0) or 0; is_same_file computes no "size"
SkipBytes(d) == IF "size" \in Algos THEN Len(d.data) ELSE 0

\* install_from_manifest, lines 437-438: the result of the skip path
SkipResult(i) ==
    InstallResult(i, TRUE, SkipBytes(root.files[TargetOf(i)]), 0, NoErr, "true")

\* A collection that keeps the successes only
Collect_successes(rs, res) == IF res.success THEN Append(rs, res) ELSE rs

\* install_from_manifest, lines 534-540: a completed future's result is kept
Collect(rs, res) == Append(rs, res)

\* install_from_manifest, lines 424-441: the worker finds the file in place
TaskSkip(i) ==
    /\ ipc = "downloading"
    /\ i \in Planned
    /\ task[i].state = "queued"
    /\ SkipEligible(i)
    /\ task' = [task EXCEPT ![i].state = "done"]
    /\ results' = Collect(results, SkipResult(i))
    /\ UNCHANGED <<ipc, args, plan, overrides, root, root0, backup, report>>
    /\ UNCHANGED <<dlVars, libVars>>

\* install_from_manifest, line 444: the attempts of the for loop
LastAttempt(n) == n >= args.max_retries

\* install_from_manifest, lines 444-529: one pass of the for loop of
\* _download_task for item i (after the skip test, on its first pass), and
\* the task's return when the loop ends.  resolved: the client gives a URL
\* when the item has none; resp: what the download source answers.
TaskAttempt(i, resolved, resp) ==
    /\ ipc = "downloading"
    /\ i \in Planned
    /\ task[i].state # "done"
    /\ task[i].state = "queued" => ~SkipEligible(i)
    /\ \E ws \in {write_stream_to_tempfile(resp, root.files[PartOf(i)],
                                           root.files[TargetOf(i)], TRUE)} :
         LET it       == plan[i]
             n        == task[i].attempts + 1
             has_url  == task[i].url \/ resolved
             streamed == has_url /\ Streams(resp)
             promoted == streamed /\ ~ws.raised
             verify   == promoted /\ Len(it.expected_hashes) > 0
             chk      == is_same_file(ws.dest, it.expected_hashes)
             \* the exception the try body ends with
             exc == IF ~has_url THEN Err("no_url", 0)
                    ELSE IF resp.kind = "exception" THEN Err("network", 0)
                    ELSE IF resp.status = 429 THEN Err("rate_limited", resp.status)
                    ELSE IF resp.status >= 400 THEN Err("http", resp.status)
                    ELSE IF ws.raised THEN Err("stream", 0)
                    ELSE IF verify /\ (chk.raised \/ ~chk.same) THEN Err("checksum", 0)
                    ELSE NoErr
             ok    == exc = NoErr
             bytes == IF promoted THEN Len(ws.dest.data) ELSE task[i].downloaded_bytes
             cks   == IF verify THEN (IF chk.same THEN "true" ELSE "false")
                      ELSE IF promoted THEN "none" ELSE task[i].checksum_ok
             files == IF ~streamed THEN root.files
                      ELSE [root.files EXCEPT
                              ![PartOf(i)] = ws.part,
                              ![TargetOf(i)] = IF verify /\ ~ok THEN Absent ELSE ws.dest]
             done  == ok \/ LastAttempt(n)
         IN  /\ root' = [root EXCEPT !.files = files]
             /\ task' = [task EXCEPT ![i] =
                           [attempts |-> n,
                            requests |-> @.requests + (IF has_url THEN 1 ELSE 0),
                            last_err |-> exc,
                            checksum_ok |-> cks,
                            downloaded_bytes |-> bytes,
                            state |-> IF done THEN "done" ELSE "running",
                            url |-> has_url,
                            only_5xx |-> @.only_5xx /\ (has_url => resp.kind = "http"
                                                                     /\ resp.status >= 500)]]
             /\ results' = IF done
                           THEN Collect(results, InstallResult(i, ok, bytes, n, exc, cks))
                           ELSE results
    /\ UNCHANGED <<ipc, args, plan, overrides, root0, backup, report>>
    /\ UNCHANGED <<dlVars, libVars>>

NoResponse == Response("none", 0, None, <<>>, 0)

\* The passes of the loop, by what happens in them
TaskNoUrl(i) ==
    /\ i \in Planned /\ ~task[i].url
    /\ TaskAttempt(i, FALSE, NoResponse)

TaskException(i) ==
    /\ i \in Planned
    /\ TaskAttempt(i, TRUE, Response("exception", 0, None, <<>>, 0))

TaskHttpError(i) ==
    /\ i \in Planned
    /\ \E s \in {404, 429, 500} : TaskAttempt(i, TRUE, Response("http", s, None, <<>>, 0))

\* a 200 whose body is the resource, cut short after a byte or whole
TaskStream(i) ==
    /\ i \in Planned
    /\ \E c \in {1, ResLen} : TaskAttempt(i, TRUE, Response("http", 200, None, Resource, c))

\* What the caller passes and how the installer was built.  A setting is
\* recorded here when the step that reads it runs (overwrite and
\* preserve_backups are read only behind the conditions that precede them).
NoArgs(m) == [max_retries |-> m, create_instance_dirs |-> FALSE, dry_run |-> FALSE,
              required |-> <<>>, overwrite |-> FALSE, preserve_backups |-> FALSE,
              rollback |-> "none"]

\* install_from_manifest, lines 369-383: directories, then the manifest.
\* A manifest source that is not found raises ManifestError.
Planning ==
    /\ ipc = "start"
    /\ \E create \in BOOLEAN, found \in BOOLEAN :
         /\ args' = [args EXCEPT !.create_instance_dirs = create]
         /\ root' = IF create THEN ensure_dirs(root) ELSE root
         /\ ipc' = IF found THEN "backup" ELSE "raised"
    /\ UNCHANGED <<plan, overrides, root0, backup, task, results, report>>
    /\ UNCHANGED <<dlVars, libVars>>

\* install_from_manifest, lines 385-399: copytree of the root; a failed copy
\* (no root to copy, or an error while copying) leaves backup_path None
Backup ==
    /\ ipc = "backup"
    /\ \E backup_on_failure \in BOOLEAN, copied \in BOOLEAN :
         backup' = IF backup_on_failure /\ root.exists /\ copied THEN root ELSE NoTree
    /\ ipc' = "plan"
    /\ UNCHANGED <<args, plan, overrides, root, root0, task, results, report>>
    /\ UNCHANGED <<dlVars, libVars>>

\* A dry run that reports a completed install
DryRunReport_success ==
    [results |-> [i \in 1..Len(plan) |->
                     InstallResult(i, TRUE, 0, 0, Err("dry-run", 0), "none")],
     success |-> TRUE, total_files |-> Len(plan), successful |-> 0, failed |-> 0]

\* install_from_manifest, lines 405-412: the placeholders of a dry run
DryRunReport ==
    [results |-> [i \in 1..Len(plan) |->
                     InstallResult(i, FALSE, 0, 0, Err("dry-run", 0), "none")],
     success |-> FALSE, total_files |-> Len(plan), successful |-> 0, failed |-> 0]

\* install_from_manifest, lines 401-417: the plan, the dry run's return,
\* the target folders
BuildPlan ==
    /\ ipc = "plan"
    /\ \E dry \in BOOLEAN :
         /\ args' = [args EXCEPT !.dry_run = dry]
         /\ IF dry
            THEN /\ report' = DryRunReport
                 /\ ipc' = "returned"
                 /\ root' = root
            ELSE /\ report' = [report EXCEPT !.total_files = Len(plan)]
                 /\ ipc' = "downloading"
                 /\ root' = IF Len(plan) > 0 THEN mkdir(root, "mods") ELSE root
    /\ UNCHANGED <<plan, overrides, root0, backup, task, results>>
    /\ UNCHANGED <<dlVars, libVars>>

\* A pool that is left when the first task has completed
Joined_first == \E i \in Planned : task[i].state = "done"

\* install_from_manifest, lines 532-545: the with block of the executor is
\* left when every task has completed
Joined == \A i \in Planned : task[i].state = "done"

\* A count of every failure, required or not
CountsAsFailed_any(r, required) == ~r.success

\* install_from_manifest, line 550: the failures that count, for the
\* items' required flags
CountsAsFailed(r, required) == ~r.success /\ required[r.item]

\* install_from_manifest, line 549
Succeeded(r, required) == r.success

\* line 549: sum(1 for r in results if r.success)
successful(rs, required) == Cardinality({k \in 1..Len(rs) : Succeeded(rs[k], required)})

\* line 550: sum(1 for r in results if not r.success and r.item.required)
failed(rs, required) == Cardinality({k \in 1..Len(rs) : CountsAsFailed(rs[k], required)})

\* install_from_manifest, lines 547-552.  The items' required flags are read
\* here for the first time.
Aggregate ==
    /\ ipc = "downloading"
    /\ Joined
    /\ \E required \in [Planned -> BOOLEAN] :
         /\ args' = [args EXCEPT !.required = required]
         /\ report' = [report EXCEPT
                         !.results = results,
                         !.successful = successful(results, required),
                         !.failed = failed(results, required),
                         !.success = (failed(results, required) = 0)]
    /\ ipc' = "overrides"
    /\ UNCHANGED <<plan, overrides, root, root0, backup, task, results>>
    /\ UNCHANGED <<dlVars, libVars>>

\* install_from_manifest, lines 573-595: the copy of the overrides tree
CopyOverrides(t, ov, overwrite) ==
    IF ov.exists /\ overwrite
    THEN [exists |-> TRUE,
          dirs |-> t.dirs \cup ov.dirs,
          files |-> [n \in Names |-> IF ov.files[n].exists THEN ov.files[n]
                                     ELSE t.files[n]]]
    ELSE t

\* The overrides source as line 573 finds it: none, or a tree with a mod
\* and a configuration file.
OvContent == <<7>>

OverrideChoices ==
    {NoTree,
     [exists |-> TRUE, dirs |-> {"mods", "config"},
      files |-> [n \in Names |-> IF n \in {TargetOf(1), ConfigFile} THEN File(OvContent)
                                 ELSE Absent]]}

\* install_from_manifest, lines 554-598
ApplyOverrides ==
    /\ ipc = "overrides"
    /\ \E ov \in OverrideChoices :
       \E overwrite \in IF ov.exists THEN BOOLEAN ELSE {FALSE} :
         /\ args' = [args EXCEPT !.overwrite = overwrite]
         /\ overrides' = ov
         /\ root' = CopyOverrides(root, ov, overwrite)
    /\ ipc' = "rollback"
    /\ UNCHANGED <<plan, root0, backup, task, results, report>>
    /\ UNCHANGED <<dlVars, libVars>>

\* install_from_manifest, line 601: when the backup is restored
MustRollBack == report.failed > 0 /\ backup.exists

\* How safe_remove(instance_root) and shutil.move(backup, root) may end:
\* the tree is removed and the backup moved in; the move fails; the removal
\* fails and the tree stays.
RollbackOutcomes == {"restored", "move_failed", "remove_failed"}

\* A rollback that leaves the install root as the run left it
Restore_nothing(t, b, outcome) == [root |-> t, backup |-> b]

\* install_from_manifest, lines 600-609: [root, backup] after the rollback
Restore(t, b, outcome) ==
    CASE outcome = "restored" -> [root |-> b, backup |-> NoTree]
      [] outcome = "move_failed" -> [root |-> NoTree, backup |-> b]
      [] OTHER -> [root |-> t, backup |-> b]

Rollback ==
    /\ ipc = "rollback"
    /\ IF MustRollBack
       THEN \E outcome \in RollbackOutcomes :
               /\ root' = Restore(root, backup, outcome).root
               /\ backup' = Restore(root, backup, outcome).backup
               /\ args' = [args EXCEPT !.rollback = outcome]
       ELSE UNCHANGED <<root, backup, args>>
    /\ ipc' = "cleanup"
    /\ UNCHANGED <<plan, overrides, root0, task, results, report>>
    /\ UNCHANGED <<dlVars, libVars>>

\* install_from_manifest, lines 611-620: the backup is dropped after a
\* success unless the caller keeps it; the report is returned
Cleanup ==
    /\ ipc = "cleanup"
    /\ \E preserve \in IF backup.exists /\ report.success THEN BOOLEAN ELSE {FALSE} :
         /\ args' = [args EXCEPT !.preserve_backups = preserve]
         /\ backup' = IF backup.exists /\ report.success /\ ~preserve THEN NoTree
                      ELSE backup
    /\ report' = [report EXCEPT !.success = (report.failed = 0)]
    /\ ipc' = "returned"
    /\ UNCHANGED <<plan, overrides, root, root0, task, results>>
    /\ UNCHANGED <<dlVars, libVars>>

\* The calls explored.  An item has the resource's hash or none.  Whether it
\* has a download URL shows on its first pass: a request goes out (the planner
\* or the client gave the URL) or none does (TaskNoUrl).  Whether it is
\* required shows where line 550 reads the flag.
ItemChoices ==
    [expected_hashes : {<<>>, <<HashItem(Key("sha1", FALSE), Digest("sha1", Resource))>>}]

Hashed(it) == Len(it.expected_hashes) > 0

\* Plans of up to NItems items; an item without hashes comes first
Plans == UNION {{p \in [1..n -> ItemChoices] : \A i \in 2..n : Hashed(p[i])} : n \in 0..NItems}

\* The install root before the call: missing, or an instance with the
\* user's configuration file and: no target file; all but the first; all of
\* them, the first with the resource's content or with other content.
RootChoices ==
    {NoTree}
    \cup {[exists |-> TRUE, dirs |-> {"mods", "config"},
           files |-> [n \in Names |->
                        IF n = ConfigFile THEN File(OldContent)
                        ELSE IF n.kind = "target" THEN tf[n.item] ELSE Absent]] :
            tf \in {f \in [Items -> {Absent, File(Resource), File(OldContent)}] :
                       /\ \A i \in Items : f[i] = File(OldContent) => i = 1
                       /\ \A i, j \in Items \ {1} : f[i] = f[j]
                       /\ \A i \in Items : f[i] = Absent => f[1] = Absent}}

InstallInit ==
    /\ ipc = "start"
    /\ \E m \in 1..MaxAttempts : args = NoArgs(m)
    /\ plan \in Plans
    /\ overrides = NoTree
    /\ root \in RootChoices
    /\ root0 = root
    /\ backup = NoTree
    /\ task = [i \in DOMAIN plan |->
                 [attempts |-> 0, requests |-> 0, last_err |-> NoErr,
                  checksum_ok |-> "none", downloaded_bytes |-> 0,
                  state |-> "queued", url |-> FALSE, only_5xx |-> TRUE]]
    /\ results = <<>>
    /\ report = EmptyReport

InstallNext ==
    \/ Planning
    \/ Backup
    \/ BuildPlan
    \/ \E i \in Items : TaskSkip(i)
    \/ \E i \in Items : TaskNoUrl(i)
    \/ \E i \in Items : TaskException(i)
    \/ \E i \in Items : TaskHttpError(i)
    \/ \E i \in Items : TaskStream(i)
    \/ Aggregate
    \/ ApplyOverrides
    \/ Rollback
    \/ Cleanup

\* -------------------------------- installer.py: the plan and the worker pool

MaxWorkers == 2

\* s up to (not including) the first c: s.split(c)[0]
RECURSIVE BeforeFirst(_, _)
BeforeFirst(s, c) ==
    IF Len(s) = 0 \/ s[1] = c THEN <<>> ELSE <<s[1]>> \o BeforeFirst(Tail(s), c)

\* s.rstrip(c)
RECURSIVE RStrip(_, _)
RStrip(s, c) ==
    IF Len(s) > 0 /\ s[Len(s)] = c THEN RStrip(SubSeq(s, 1, Len(s) - 1), c) ELSE s

\* s.split(c)[-1]
RECURSIVE AfterLast(_, _)
AfterLast(s, c) ==
    IF Len(s) = 0 \/ s[Len(s)] = c THEN <<>>
    ELSE AfterLast(SubSeq(s, 1, Len(s) - 1), c) \o <<s[Len(s)]>>

\* line 255: download_url.split("?")[0].rstrip("/").split("/")[-1]
UrlBasename(url) == AfterLast(RStrip(BeforeFirst(url, "?"), "/"), "/")

\* os.path.basename
Basename(s) == AfterLast(s, "/")

\* line 263: f"{item.project_id}-{item.file_id}.jar"
PlaceholderName(p, f) == ToStr(p) \o <<"-">> \o ToStr(f) \o <<".","j","a","r">>

\* File names and download URLs the client gives
NameA == <<"a",".","j","a","r">>
NameB == <<"b",".","j","a","r">>
UrlA == <<"h","/","f","/","a",".","j","a","r","?","k","=","1">>
UrlC == <<"h","/","f","/","c",".","j","a","r","/">>

\* The "files" entries of a manifest
Entries == [projectID : Items, fileID : Items]

\* What the client answers for an entry: the metadata's fileName (or no
\* metadata) and the download URL (or none)
Answer(fileName, url) == [url |-> url, fileName |-> fileName]
Answers ==
    { Answer(None, None), Answer(Some(NameA), Some(UrlC)), Answer(Some(NameB), Some(UrlC)),
      Answer(None, Some(UrlA)) }

\* temp_part_path(dest): the name with ".part" appended
temp_part_path(path) == [path EXCEPT !.name = @ \o <<".","p","a","r","t">>]

\* Python truthiness of an optional text
Named(o) == o.present /\ o.text # <<>>

\* A path of the mods folder
ModsPath(file) == [name |-> file, dir |-> "mods"]

\* build_plan_from_manifest, lines 190-266, for one entry: the file name is
\* the metadata's, else the URL's basename, else a placeholder
PlanItem(entry, answer) ==
    LET remote == IF ~Named(answer.fileName) /\ Named(answer.url)
                     /\ UrlBasename(answer.url.text) # <<>>
                  THEN Some(UrlBasename(answer.url.text))
                  ELSE answer.fileName
    IN  IF Named(remote)
        THEN [project_id |-> entry.projectID, file_id |-> entry.fileID,
              remote_file_name |-> remote.text, download_url |-> answer.url,
              target_path |-> ModsPath(Basename(remote.text))]
        ELSE [project_id |-> entry.projectID, file_id |-> entry.fileID,
              remote_file_name |-> PlaceholderName(entry.projectID, entry.fileID),
              download_url |-> answer.url,
              target_path |-> ModsPath(PlaceholderName(entry.projectID, entry.fileID))]

\* build_plan_from_manifest(manifest, install_paths): one item per entry
build_plan_from_manifest(files, answers) ==
    [k \in 1..Len(files) |-> PlanItem(files[k], answers[files[k]])]

Running == {i \in DOMAIN worker : worker[i] \in {"running", "writing"}}

\* install_from_manifest, lines 402-403
PoolPlan ==
    /\ ppc = "plan"
    /\ \E built \in {build_plan_from_manifest(manifest, client)} :
         /\ items' = built
         /\ worker' = [i \in DOMAIN built |-> "queued"]
    /\ ppc' = "pool"
    /\ UNCHANGED <<manifest, client, max_workers>>
    /\ UNCHANGED <<dlVars, instVars, awVars, csVars, fnVars>>

\* lines 532-533: the executor gives a queued task to a free worker
WorkerStart(i) ==
    /\ ppc = "pool"
    /\ worker[i] = "queued"
    /\ Cardinality(Running) < max_workers
    /\ worker' = [worker EXCEPT ![i] = "running"]
    /\ UNCHANGED <<manifest, client, items, max_workers, ppc>>
    /\ UNCHANGED <<dlVars, instVars, awVars, csVars, fnVars>>

\* lines 481-487: the task is in write_stream_to_tempfile, its .part file
\* at temp_part_path(dest_path) open for writing
WorkerWrite(i) ==
    /\ ppc = "pool"
    /\ worker[i] = "running"
    /\ worker' = [worker EXCEPT ![i] = "writing"]
    /\ UNCHANGED <<manifest, client, items, max_workers, ppc>>
    /\ UNCHANGED <<dlVars, instVars, awVars, csVars, fnVars>>

\* lines 523-529: the task returns its result
WorkerDone(i) ==
    /\ ppc = "pool"
    /\ worker[i] \in {"running", "writing"}
    /\ worker' = [worker EXCEPT ![i] = "done"]
    /\ UNCHANGED <<manifest, client, items, max_workers, ppc>>
    /\ UNCHANGED <<dlVars, instVars, awVars, csVars, fnVars>>

\* line 532: leaving the with block waits for every task
PoolJoin ==
    /\ ppc = "pool"
    /\ \A i \in DOMAIN worker : worker[i] = "done"
    /\ ppc' = "joined"
    /\ UNCHANGED <<manifest, client, items, max_workers, worker>>
    /\ UNCHANGED <<dlVars, instVars, awVars, csVars, fnVars>>

\* The manifests explored: up to NItems entries, an entry possibly listed
\* twice; the client answers every entry it is asked about
PoolInit ==
    /\ manifest \in UNION {[1..n -> Entries] : n \in 0..NItems}
    /\ client \in [Entries -> Answers]
    /\ items = <<>>
    /\ max_workers \in 1..MaxWorkers
    /\ worker = <<>>
    /\ ppc = "plan"

PoolNext ==
    \/ PoolPlan
    \/ \E i \in DOMAIN worker : WorkerStart(i)
    \/ \E i \in DOMAIN worker : WorkerWrite(i)
    \/ \E i \in DOMAIN worker : WorkerDone(i)
    \/ PoolJoin

PoolIdle ==
    /\ manifest = <<>>
    /\ client = [e \in Entries |-> Answer(None, None)]
    /\ items = <<>>
    /\ max_workers = 1
    /\ worker = <<>>
    /\ ppc = "idle"

\* ------------------------------------- fileops.py: atomic_write, step by step

\* A reader of dest_path sees the file after every step
Seen(d) == aw_seen \cup {d}

\* lines 89-94: the directory is made; ValueError unless exactly one of data
\* and chunks is given
AwCheck ==
    /\ aw_pc = "check"
    /\ aw_pc' = IF atomic_write(aw_dest, aw_data, aw_chunks).raised
                THEN "ValueError" ELSE "mkstemp"
    /\ UNCHANGED <<aw_data, aw_chunks, aw_dest, aw_dest0, aw_tmp, aw_seen, aw_failed>>
    /\ UNCHANGED <<dlVars, instVars, poolVars, csVars, fnVars>>

\* lines 99-100: tempfile.mkstemp in the destination's directory
AwMkstemp ==
    /\ aw_pc = "mkstemp"
    /\ \E ok \in BOOLEAN :
         /\ aw_tmp' = IF ok THEN File(<<>>) ELSE aw_tmp
         /\ aw_failed' = IF ok THEN aw_failed ELSE aw_failed \cup {"mkstemp"}
         /\ aw_pc' = IF ok THEN "write" ELSE "cleanup"
    /\ UNCHANGED <<aw_data, aw_chunks, aw_dest, aw_dest0, aw_seen>>
    /\ UNCHANGED <<dlVars, instVars, poolVars, csVars, fnVars>>

\* lines 102-118: f.write(data), or the next chunk of chunks (an empty chunk
\* is skipped); a write that fails leaves what was written before it
AwWrite ==
    /\ aw_pc = "write"
    /\ \E ok \in BOOLEAN :
         /\ aw_failed' = IF ok THEN aw_failed ELSE aw_failed \cup {"write"}
         /\ IF ~ok
            THEN /\ aw_pc' = "cleanup"
                 /\ UNCHANGED <<aw_chunks, aw_tmp>>
            ELSE IF aw_data.present
            THEN /\ aw_tmp' = File(aw_tmp.data \o aw_data.bytes)
                 /\ aw_pc' = "fsync"
                 /\ UNCHANGED aw_chunks
            ELSE IF aw_chunks.chunks = <<>>
            THEN /\ aw_pc' = "fsync"
                 /\ UNCHANGED <<aw_chunks, aw_tmp>>
            ELSE /\ aw_tmp' = File(aw_tmp.data \o Head(aw_chunks.chunks))
                 /\ aw_chunks' = Chunks(Tail(aw_chunks.chunks))
                 /\ aw_pc' = "write"
    /\ UNCHANGED <<aw_data, aw_dest, aw_dest0, aw_seen>>
    /\ UNCHANGED <<dlVars, instVars, poolVars, csVars, fnVars>>

\* line 119: _fsync_fileobj(f), and the file is closed
AwFsync ==
    /\ aw_pc = "fsync"
    /\ \E ok \in BOOLEAN :
         /\ aw_failed' = IF ok THEN aw_failed ELSE aw_failed \cup {"fsync"}
         /\ aw_pc' = IF ok THEN "replace" ELSE "cleanup"
    /\ UNCHANGED <<aw_data, aw_chunks, aw_dest, aw_dest0, aw_tmp, aw_seen>>
    /\ UNCHANGED <<dlVars, instVars, poolVars, csVars, fnVars>>

\* lines 122-124: os.replace(tmp, dest_path)
AwReplace ==
    /\ aw_pc = "replace"
    /\ \E ok \in BOOLEAN :
         /\ aw_dest' = IF ok THEN aw_tmp ELSE aw_dest
         /\ aw_tmp' = IF ok THEN Absent ELSE aw_tmp
         /\ aw_failed' = IF ok THEN aw_failed ELSE aw_failed \cup {"replace"}
         /\ aw_pc' = IF ok THEN "returned" ELSE "unlink"
    /\ aw_seen' = Seen(aw_dest')
    /\ UNCHANGED <<aw_data, aw_chunks, aw_dest0>>
    /\ UNCHANGED <<dlVars, instVars, poolVars, csVars, fnVars>>

\* lines 125-128: the fallback removes an existing destination first
AwFallbackUnlink ==
    /\ aw_pc = "unlink"
    /\ \E ok \in BOOLEAN :
         /\ aw_dest' = IF ok THEN Absent ELSE aw_dest
         /\ aw_failed' = IF ok \/ ~aw_dest.exists THEN aw_failed
                         ELSE aw_failed \cup {"unlink"}
         /\ aw_pc' = IF ok \/ ~aw_dest.exists THEN "move" ELSE "cleanup"
    /\ aw_seen' = Seen(aw_dest')
    /\ UNCHANGED <<aw_data, aw_chunks, aw_dest0, aw_tmp>>
    /\ UNCHANGED <<dlVars, instVars, poolVars, csVars, fnVars>>

\* line 129: shutil.move(tmp, dest_path): a rename; when the rename fails, a
\* copy of the file followed by the removal of the source; or a failure
AwMove ==
    /\ aw_pc = "move"
    /\ \E how \in {"renamed", "copying", "failed"} :
         /\ aw_dest' = CASE how = "renamed" -> aw_tmp
                         [] how = "copying" -> File(<<>>)
                         [] OTHER -> aw_dest
         /\ aw_tmp' = IF how = "renamed" THEN Absent ELSE aw_tmp
         /\ aw_failed' = IF how = "failed" THEN aw_failed \cup {"move"} ELSE aw_failed
         /\ aw_pc' = CASE how = "renamed" -> "returned"
                       [] how = "copying" -> "copy"
                       [] OTHER -> "cleanup"
    /\ aw_seen' = Seen(aw_dest')
    /\ UNCHANGED <<aw_data, aw_chunks, aw_dest0>>
    /\ UNCHANGED <<dlVars, instVars, poolVars, csVars, fnVars>>

\* line 129, shutil.move copying: the destination fills up; the copy ends and
\* the source is removed, or it fails part of the way
AwMoveCopy ==
    /\ aw_pc = "copy"
    /\ \E ok \in BOOLEAN :
         /\ aw_dest' = IF ok THEN aw_tmp ELSE aw_dest
         /\ aw_tmp' = IF ok THEN Absent ELSE aw_tmp
         /\ aw_failed' = IF ok THEN aw_failed ELSE aw_failed \cup {"move"}
         /\ aw_pc' = IF ok THEN "returned" ELSE "cleanup"
    /\ aw_seen' = Seen(aw_dest')
    /\ UNCHANGED <<aw_data, aw_chunks, aw_dest0>>
    /\ UNCHANGED <<dlVars, instVars, poolVars, csVars, fnVars>>

\* lines 130-147: both handlers unlink the temporary file when it exists,
\* ignore a failure of the unlink, and raise DownloadError
AwCleanup ==
    /\ aw_pc = "cleanup"
    /\ \E ok \in BOOLEAN :
         /\ aw_tmp' = IF ok THEN Absent ELSE aw_tmp
         /\ aw_failed' = IF ok \/ ~aw_tmp.exists THEN aw_failed
                         ELSE aw_failed \cup {"cleanup"}
    /\ aw_pc' = "DownloadError"
    /\ UNCHANGED <<aw_data, aw_chunks, aw_dest, aw_dest0, aw_seen>>
    /\ UNCHANGED <<dlVars, instVars, poolVars, csVars, fnVars>>

\* The calls explored: data, chunks (in one piece, or in pieces with an empty
\* one), both or neither; a destination that is absent or holds a file
ChunkChoices ==
    {NoChunks, Chunks(<<Resource>>),
     Chunks(<<SubSeq(Resource, 1, 1), <<>>, SubSeq(Resource, 2, ResLen)>>)}

WriteInit ==
    /\ aw_pc = "check"
    /\ aw_data \in {NoBytes, Bytes(Resource)}
    /\ aw_chunks \in ChunkChoices
    /\ aw_dest \in {Absent, File(OldContent), File(Resource)}
    /\ aw_dest0 = aw_dest
    /\ aw_tmp = Absent
    /\ aw_seen = {aw_dest}
    /\ aw_failed = {}

WriteNext ==
    \/ AwCheck
    \/ AwMkstemp
    \/ AwWrite
    \/ AwFsync
    \/ AwReplace
    \/ AwFallbackUnlink
    \/ AwMove
    \/ AwMoveCopy
    \/ AwCleanup

\* ------------------------------------------- fileops.py: is_same_file, called

\* Most items of an expected_hashes dict
MaxHashes == 2

\* Keys and values of the dicts explored: algorithm names in either case and
\* one that is not computed; digests of the file's algorithms in either case,
\* a digest of other content, and the empty string
HashKeys ==
    {Key("sha1", FALSE), Key("sha1", TRUE), Key("md5", FALSE), Key("crc32", FALSE)}

HashValues ==
    {Digest("sha1", Resource), Upper(Digest("sha1", Resource)),
     Digest("md5", Resource), Digest("sha1", Corrupt), EmptyHex}

\* The dicts, as the sequences of their items: the keys of a dict are distinct
HashDicts ==
    {s \in UNION {[1..n -> {HashItem(k, v) : k \in HashKeys, v \in HashValues}]
                     : n \in 0..MaxHashes} :
        \A i, j \in DOMAIN s : i # j => s[i].k # s[j].k}

\* lines 266-321: the call returns (matches, computed) or raises
\* FileNotFoundError
IsSameFile ==
    /\ cs_pc = "call"
    /\ cs_out' = is_same_file(cs_file, cs_expected)
    /\ cs_pc' = IF cs_out'.raised THEN "FileNotFoundError" ELSE "returned"
    /\ UNCHANGED <<cs_file, cs_expected>>
    /\ UNCHANGED <<dlVars, instVars, poolVars, awVars, fnVars>>

ChecksumInit ==
    /\ cs_pc = "call"
    /\ cs_file \in {Absent, File(Resource), File(Corrupt)}
    /\ cs_expected \in HashDicts
    /\ cs_out = [raised |-> FALSE, same |-> FALSE]

ChecksumNext == IsSameFile

\* ------------------------------------------ installer.py: _load_manifest

\* A path is the sequence of its components; the name of an archive entry is
\* one too, with a first component "" when the name begins with "/", and dir
\* says that the name ends with "/".
Entry(name, dir) == [name |-> name, dir |-> dir]

\* tempfile.mkdtemp(prefix="cf-overrides-"), line 307
tmp_dir == <<"tmp", "cf-overrides-1">>

\* Path.__truediv__: an absolute right operand replaces the left one
Join(base, name) ==
    IF Len(name) > 0 /\ name[1] = "" THEN Tail(name) ELSE base \o name

\* The file system's resolution of a path: ".." leaves the directory
RECURSIVE Resolve(_, _)
Resolve(done, rest) ==
    IF rest = <<>> THEN done
    ELSE IF Head(rest) = ".."
    THEN Resolve(IF done = <<>> THEN <<>> ELSE SubSeq(done, 1, Len(done) - 1), Tail(rest))
    ELSE Resolve(Append(done, Head(rest)), Tail(rest))

\* n.endswith("manifest.json"), line 300: the last component ends with it
ManifestLike == {"manifest.json", "old-manifest.json"}

IsManifestName(e) ==
    /\ ~e.dir
    /\ Len(e.name) > 0
    /\ e.name[Len(e.name)] \in ManifestLike

\* n.startswith("overrides/") or "/overrides/" in n, line 308
IsOverridesEntry(e) ==
    \E i \in 1..Len(e.name) :
        /\ e.name[i] = "overrides"
        /\ i < Len(e.name) \/ e.dir

\* A manifest source: a dict; a path that does not exist; a .json file; a
\* .zip file (zip_ok: zipfile can read it) with its entries; a file with
\* another suffix.  json_ok: the document read parses as JSON.
Source(kind, json_ok, zip_ok, entries) ==
    [kind |-> kind, json_ok |-> json_ok, zip_ok |-> zip_ok, entries |-> entries]

\* What one entry of overrides_entries creates, lines 311-318: the parent
\* directory of dest, and dest as a directory or as a file
Extracted(e) ==
    LET at == Join(tmp_dir, e.name)
    IN  {[path |-> Resolve(<<>>, SubSeq(at, 1, Len(at) - 1)), dir |-> TRUE],
         [path |-> Resolve(<<>>, at), dir |-> e.dir]}

\* _load_manifest(manifest_source): [raised, overrides, created], where raised
\* is "" or the exception, overrides the overrides source path returned and
\* created what the call created in the file system
Loaded(raised, overrides_path, created) ==
    [raised |-> raised, overrides |-> overrides_path, created |-> created]

_load_manifest(src) ==
    CASE src.kind = "dict" -> Loaded("", None, {})
      [] src.kind = "missing" -> Loaded("ManifestError", None, {})
      [] src.kind = "json" ->
            IF src.json_ok THEN Loaded("", None, {})
            ELSE Loaded("JSONDecodeError", None, {})
      [] src.kind = "zip" ->
            IF ~src.zip_ok THEN Loaded("BadZipFile", None, {})
            ELSE IF {e \in src.entries : IsManifestName(e)} = {}
            THEN Loaded("ManifestError", None, {})
            ELSE IF ~src.json_ok THEN Loaded("JSONDecodeError", None, {})
            ELSE LET overrides_entries == {e \in src.entries : IsOverridesEntry(e)}
                     made == {[path |-> tmp_dir, dir |-> TRUE]}
                                \cup UNION {Extracted(e) : e \in overrides_entries}
                 IN  IF overrides_entries # {}
                     THEN Loaded("", Some(tmp_dir \o <<"overrides">>), made)
                     ELSE Loaded("", None, made)
      [] OTHER ->
            IF src.json_ok THEN Loaded("", None, {})
            ELSE Loaded("JSONDecodeError", None, {})

\* The entries the archives explored are made of
EntryPool ==
    {Entry(<<"manifest.json">>, FALSE),
     Entry(<<"pack", "manifest.json">>, FALSE),
     Entry(<<"overrides">>, TRUE),
     Entry(<<"overrides", "config", "a.cfg">>, FALSE),
     Entry(<<"pack", "overrides", "config", "a.cfg">>, FALSE),
     Entry(<<"overrides", "..", "..", "evil.sh">>, FALSE),
     Entry(<<"", "overrides", "x">>, FALSE),
     Entry(<<"mods", "readme.txt">>, FALSE)}

Sources ==
    {Source("dict", TRUE, FALSE, {}), Source("missing", FALSE, FALSE, {}),
     Source("zip", FALSE, FALSE, {})}
      \cup {Source(k, j, FALSE, {}) : k \in {"json", "other"}, j \in BOOLEAN}
      \cup {Source("zip", j, TRUE, es) : j \in BOOLEAN, es \in SUBSET EntryPool}

\* lines 272-327: the call returns, or raises
LoadManifest ==
    /\ fn_pc = "_load_manifest"
    /\ fn_out' = _load_manifest(fn_in)
    /\ fn_pc' = IF fn_out'.raised = "" THEN "returned" ELSE fn_out'.raised
    /\ UNCHANGED fn_in
    /\ UNCHANGED <<dlVars, instVars, poolVars, awVars, csVars>>

LoadInit ==
    /\ fn_pc = "_load_manifest"
    /\ fn_in \in Sources
    /\ fn_out = <<>>

LoadNext == LoadManifest

\* ------------------------------------------- download.py: download_bulk

\* Most tasks of a call
MaxTasks == 2

\* What a task is: one whose download succeeds, one whose download fails, one
\* with neither "url" nor "modfile", one that makes the worker's call raise
TaskKinds == {"ok", "fails", "invalid", "raises"}

\* What a future holds when its worker returned: the DownloadResult, or the
\* exception that left _worker
Returned(success, error) == [raised |-> FALSE, success |-> success, error |-> error]

\* A worker that lets the exception of its task escape
_worker_uncaught(kind) ==
    CASE kind = "ok" -> Returned(TRUE, "")
      [] kind = "fails" -> Returned(FALSE, "failed")
      [] kind = "invalid" -> Returned(FALSE, "Invalid task")
      [] OTHER -> [raised |-> TRUE, success |-> FALSE, error |-> "exc"]

\* lines 465-484: _worker(task)
_worker(kind) ==
    CASE kind = "ok" -> Returned(TRUE, "")
      [] kind = "fails" -> Returned(FALSE, "failed")
      [] kind = "invalid" -> Returned(FALSE, "Invalid task")
      [] OTHER -> Returned(FALSE, "exc")

BulkTasks == DOMAIN fn_in.tasks

InState(s) == {i \in BulkTasks : fn_out.state[i] = s}

\* ThreadPoolExecutor(max_workers=concurrency): a free thread takes the task
\* submitted first
BulkStart(i) ==
    /\ fn_pc \in {"submit", "as_completed"}
    /\ i \in InState("queued")
    /\ \A j \in InState("queued") : i <= j
    /\ Cardinality(InState("running")) < fn_in.concurrency
    /\ fn_out' = [fn_out EXCEPT !.state[i] = "running"]
    /\ UNCHANGED <<fn_pc, fn_in>>
    /\ UNCHANGED <<dlVars, instVars, poolVars, awVars, csVars>>

\* The worker of task i returns: its future completes.  A future that
\* completes while as_completed waits is queued for it in completion order.
BulkFinish(i) ==
    /\ fn_pc \in {"submit", "as_completed"}
    /\ i \in InState("running")
    /\ fn_out' = [fn_out EXCEPT !.state[i] = "finished",
                                !.completed = Append(@, i),
                                !.queue = IF fn_pc = "as_completed" THEN Append(@, i)
                                          ELSE @]
    /\ UNCHANGED <<fn_pc, fn_in>>
    /\ UNCHANGED <<dlVars, instVars, poolVars, awVars, csVars>>

\* lines 487-488: every task is submitted, and as_completed(futures) begins:
\* the futures that have completed by then are yielded first, in no order
BulkAsCompleted ==
    /\ fn_pc = "submit"
    /\ fn_pc' = "as_completed"
    /\ fn_out' = [fn_out EXCEPT !.early = InState("finished")]
    /\ UNCHANGED fn_in
    /\ UNCHANGED <<dlVars, instVars, poolVars, awVars, csVars>>

\* The futures as_completed yields first and has not yielded yet
EarlyLeft == fn_out.early \cap InState("finished")

\* lines 488-495: one pass of the for loop over the future of task i:
\* fut.result() returns the result or raises what left the worker; the result
\* is appended; progress_cb, when given, is called and what it raises ignored
BulkCollect(i) ==
    /\ fn_pc = "as_completed"
    /\ IF EarlyLeft # {} THEN i \in EarlyLeft
       ELSE fn_out.queue # <<>> /\ i = Head(fn_out.queue)
    /\ LET res == _worker(fn_in.tasks[i])
       IN  IF res.raised
           THEN /\ fn_pc' = "Exception"
                /\ fn_out' = [fn_out EXCEPT !.state[i] = "collected"]
           ELSE /\ fn_pc' = fn_pc
                /\ fn_out' =
                     [fn_out EXCEPT
                        !.state[i] = "collected",
                        !.queue = IF EarlyLeft # {} THEN @ ELSE Tail(@),
                        !.results = Append(@, [task |-> i, success |-> res.success,
                                               error |-> res.error]),
                        !.called[i] = IF fn_in.progress_cb = "none" THEN @ ELSE @ + 1]
    /\ UNCHANGED fn_in
    /\ UNCHANGED <<dlVars, instVars, poolVars, awVars, csVars>>

\* lines 487-497: the with block ends when every future was yielded
BulkReturn ==
    /\ fn_pc = "as_completed"
    /\ \A i \in BulkTasks : fn_out.state[i] = "collected"
    /\ fn_pc' = "returned"
    /\ UNCHANGED <<fn_in, fn_out>>
    /\ UNCHANGED <<dlVars, instVars, poolVars, awVars, csVars>>

\* The calls explored: up to MaxTasks tasks of every kind, one or two
\* threads, no callback, one that returns, one that raises
BulkInit ==
    /\ fn_pc = "submit"
    /\ fn_in \in [tasks : UNION {[1..n -> TaskKinds] : n \in 0..MaxTasks},
                  concurrency : 1..MaxWorkers,
                  progress_cb : {"none", "returns", "raises"}]
    /\ fn_out = [results |-> <<>>,
                 state |-> [i \in DOMAIN fn_in.tasks |-> "queued"],
                 completed |-> <<>>,
                 queue |-> <<>>,
                 early |-> {},
                 called |-> [i \in DOMAIN fn_in.tasks |-> 0]]

BulkNext ==
    \/ \E i \in BulkTasks : BulkStart(i)
    \/ \E i \in BulkTasks : BulkFinish(i)
    \/ BulkAsCompleted
    \/ \E i \in BulkTasks : BulkCollect(i)
    \/ BulkReturn

\* ----------------------- fileops.py: get_filename_from_content_disposition

HasChar(s, c) == \E i \in 1..Len(s) : s[i] = c

\* s.split(c, 1)[1], for an s that holds c
RECURSIVE AfterFirst(_, _)
AfterFirst(s, c) ==
    IF Len(s) = 0 THEN <<>>
    ELSE IF s[1] = c THEN Tail(s)
    ELSE AfterFirst(Tail(s), c)

\* s.split(c)
RECURSIVE Split(_, _)
Split(s, c) ==
    IF ~HasChar(s, c) THEN <<s>>
    ELSE <<BeforeFirst(s, c)>> \o Split(AfterFirst(s, c), c)

UpperChars == <<"A","B","C","D","E","F","G","H","I","J","K","L","M","N","O","P","Q","R","S","T","U","V","W","X","Y","Z">>
LowerChars == <<"a","b","c","d","e","f","g","h","i","j","k","l","m","n","o","p","q","r","s","t","u","v","w","x","y","z">>

\* str.lower
lower(s) ==
    [i \in 1..Len(s) |->
        IF \E j \in 1..Len(UpperChars) : UpperChars[j] = s[i]
        THEN LowerChars[CHOOSE j \in 1..Len(UpperChars) : UpperChars[j] = s[i]]
        ELSE s[i]]

\* s.strip('"')
RECURSIVE StripQuotes(_)
StripQuotes(s) ==
    IF Len(s) > 0 /\ s[1] = "\"" THEN StripQuotes(Tail(s))
    ELSE IF Len(s) > 0 /\ s[Len(s)] = "\"" THEN StripQuotes(SubSeq(s, 1, Len(s) - 1))
    ELSE s

\* lines 383-384: v.split("''", 1)[1] when "''" is in v, else v
RECURSIVE AfterQuotePair(_, _)
AfterQuotePair(s, v) ==
    IF Len(s) < 2 THEN v
    ELSE IF s[1] = "'" /\ s[2] = "'" THEN SubSeq(s, 3, Len(s))
    ELSE AfterQuotePair(Tail(s), v)

TxtFilename == <<"f","i","l","e","n","a","m","e">>
TxtFilenameStar == <<"f","i","l","e","n","a","m","e","*">>

\* lines 374-389: the loop over the parts of the header; the first part
\* whose key is filename* or filename gives the name
RECURSIVE FilenameParam(_)
FilenameParam(parts) ==
    IF parts = <<>> THEN None
    ELSE IF ~HasChar(Head(parts), "=") THEN FilenameParam(Tail(parts))
    ELSE LET p == Strip(Head(parts))
             k == lower(BeforeFirst(p, "="))
             v == StripQuotes(Strip(AfterFirst(p, "=")))
         IN  IF k = TxtFilenameStar THEN Some(AfterQuotePair(v, v))
             ELSE IF k = TxtFilename THEN Some(v)
             ELSE FilenameParam(Tail(parts))

\* get_filename_from_content_disposition(header_value), lines 362-397
get_filename_from_content_disposition(header_value) ==
    IF ~Named(header_value) THEN None
    ELSE LET filename == FilenameParam(Split(header_value.text, ";"))
         IN  IF Named(filename) THEN Some(Basename(filename.text)) ELSE None

\* get_filename_from_response(resp, fallback_url), lines 400-430, for a
\* response with the Content-Disposition header `header` and the url `url`
get_filename_from_response(header, url, fallback_url) ==
    LET filename == get_filename_from_content_disposition(header)
        used == IF Named(fallback_url) THEN fallback_url ELSE url
    IN  IF Named(filename) THEN filename
        ELSE IF Named(used) /\ UrlBasename(used.text) # <<>>
        THEN Some(UrlBasename(used.text))
        ELSE None

\* The headers explored: a disposition or none, then a filename or filename*
\* parameter in either case, with a value that is plain, quoted, a path, a
\* traversal, encoded, or empty
HeaderValues ==
    {<<"a",".","j","a","r">>, <<"\"","a",".","j","a","r","\"">>,
     <<".",".","/","a",".","j","a","r">>, <<".",".">>, <<"d","/",".",".">>,
     <<"u","t","f","-","8","'","'","a",".","j","a","r">>,
     <<"u","t","f","-","8","'","'",".",".">>, <<"d","/">>, <<>>}

HeaderKeys ==
    {TxtFilename \o <<"=">>, <<"F","i","l","e","N","a","m","e","=">>,
     TxtFilenameStar \o <<"=">>}

Headers ==
    {None, Some(<<"i","n","l","i","n","e">>)}
      \cup {Some(d \o k \o v) :
              d \in {<<>>, <<"a","t","t","a","c","h","m","e","n","t",";"," ">>},
              k \in HeaderKeys, v \in HeaderValues}

Urls == {None, Some(UrlA), Some(UrlC), Some(<<"h","/","f","/",".",".">>)}

\* lines 400-430 (and 362-397): the call returns
GetFilename ==
    /\ fn_pc = "get_filename_from_response"
    /\ fn_out' = [filename |-> get_filename_from_response(fn_in.header, fn_in.url,
                                                          fn_in.fallback_url),
                  from_header |-> get_filename_from_content_disposition(fn_in.header)]
    /\ fn_pc' = "returned"
    /\ UNCHANGED fn_in
    /\ UNCHANGED <<dlVars, instVars, poolVars, awVars, csVars>>

FilenameInit ==
    /\ fn_pc = "get_filename_from_response"
    /\ fn_in \in [url : Urls, header : Headers, fallback_url : Urls]
    /\ fn_out = <<>>

FilenameNext == GetFilename

\* ------------------------------- fileops.py: write_stream_to_tempfile, called

\* The calls explored: a response that streams, to its end or not; a .part
\* file that is absent or holds the first bytes of the resource; a
\* destination that is absent or holds a file
StreamCalls ==
    {[resume |-> a, part |-> p, dest |-> d, resp |-> r] :
        p \in {Absent} \cup {File(SubSeq(Resource, 1, n)) : n \in 0..ResLen},
        d \in {Absent, File(OldContent)},
        r \in {x \in Responses(FALSE, 0) : Streams(x)},
        a \in BOOLEAN}

\* lines 443-526: the call returns dest, or raises DownloadError
WriteStream ==
    /\ fn_pc = "write_stream_to_tempfile"
    /\ fn_out' = write_stream_to_tempfile(fn_in.resp, fn_in.part, fn_in.dest, fn_in.resume)
    /\ fn_pc' = IF fn_out'.raised THEN "DownloadError" ELSE "returned"
    /\ UNCHANGED fn_in
    /\ UNCHANGED <<dlVars, instVars, poolVars, awVars, csVars>>

StreamInit ==
    /\ fn_pc = "write_stream_to_tempfile"
    /\ fn_in \in StreamCalls
    /\ fn_out = <<>>

StreamNext == WriteStream

\* ------------------------------------------------------- specifications

\* No call of install_from_manifest is in progress
InstallIdle ==
    /\ ipc = "idle"
    /\ args = NoArgs(1)
    /\ plan = <<>>
    /\ overrides = NoTree
    /\ root = NoTree
    /\ root0 = NoTree
    /\ backup = NoTree
    /\ task = <<>>
    /\ results = <<>>
    /\ report = EmptyReport

\* No call of download_url_to_folder is in progress
DownloadIdle ==
    /\ max_attempts = 1
    /\ resume = FALSE
    /\ expected_hashes = <<>>
    /\ part = Absent
    /\ dest = Absent
    /\ dest0 = Absent
    /\ attempts = 0
    /\ requests = 0
    /\ all_5xx = TRUE
    /\ result = NoResult
    /\ last_err = None
    /\ last = NoAttempt
    /\ wait = 0
    /\ pc = "idle"

\* No call of atomic_write is in progress
WriteIdle ==
    /\ aw_pc = "idle"
    /\ aw_data = NoBytes
    /\ aw_chunks = NoChunks
    /\ aw_dest = Absent
    /\ aw_dest0 = Absent
    /\ aw_tmp = Absent
    /\ aw_seen = {}
    /\ aw_failed = {}

\* No call of is_same_file is in progress
FnIdle ==
    /\ fn_pc = "idle"
    /\ fn_in = <<>>
    /\ fn_out = <<>>

ChecksumIdle ==
    /\ cs_pc = "idle"
    /\ cs_file = Absent
    /\ cs_expected = <<>>
    /\ cs_out = [raised |-> FALSE, same |-> FALSE]

\* One call of download_url_to_folder
DownloadCall ==
    /\ DownloadInit
    /\ InstallIdle
    /\ PoolIdle
    /\ WriteIdle
    /\ ChecksumIdle
    /\ FnIdle

\* One call of install_from_manifest
InstallCall ==
    /\ InstallInit
    /\ DownloadIdle
    /\ PoolIdle
    /\ WriteIdle
    /\ ChecksumIdle
    /\ FnIdle

\* The plan and the pool of one call of install_from_manifest
PoolCall ==
    /\ PoolInit
    /\ DownloadIdle
    /\ InstallIdle
    /\ WriteIdle
    /\ ChecksumIdle
    /\ FnIdle

\* One call of is_same_file
ChecksumCall ==
    /\ ChecksumInit
    /\ FnIdle
    /\ DownloadIdle
    /\ InstallIdle
    /\ PoolIdle
    /\ WriteIdle

\* One call of _load_manifest
LoadCall ==
    /\ LoadInit
    /\ DownloadIdle
    /\ InstallIdle
    /\ PoolIdle
    /\ WriteIdle
    /\ ChecksumIdle

\* One call of download_bulk
BulkCall ==
    /\ BulkInit
    /\ DownloadIdle
    /\ InstallIdle
    /\ PoolIdle
    /\ WriteIdle
    /\ ChecksumIdle

\* One call of get_filename_from_response
FilenameCall ==
    /\ FilenameInit
    /\ DownloadIdle
    /\ InstallIdle
    /\ PoolIdle
    /\ WriteIdle
    /\ ChecksumIdle

\* One call of write_stream_to_tempfile
StreamCall ==
    /\ StreamInit
    /\ DownloadIdle
    /\ InstallIdle
    /\ PoolIdle
    /\ WriteIdle
    /\ ChecksumIdle

\* One call of atomic_write
WriteCall ==
    /\ WriteInit
    /\ DownloadIdle
    /\ InstallIdle
    /\ PoolIdle
    /\ ChecksumIdle
    /\ FnIdle

DownloadSpec == DownloadCall /\ [][DownloadNext]_vars

InstallSpec == InstallCall /\ [][InstallNext]_vars

PoolSpec == PoolCall /\ [][PoolNext]_vars

WriteSpec == WriteCall /\ [][WriteNext]_vars

ChecksumSpec == ChecksumCall /\ [][ChecksumNext]_vars

LoadSpec == LoadCall /\ [][LoadNext]_vars

BulkSpec == BulkCall /\ [][BulkNext]_vars

FilenameSpec == FilenameCall /\ [][FilenameNext]_vars

StreamSpec == StreamCall /\ [][StreamNext]_vars

\* Either call
Spec == (DownloadCall \/ InstallCall) /\ [][DownloadNext \/ InstallNext]_vars

\* --------------------------------------------------------------- properties

IsPrefix(a, b) == Len(a) <= Len(b) /\ a = SubSeq(b, 1, Len(a))

\* The positions in a list of results that hold item i's result
ResultsOf(rs, i) == {k \in 1..Len(rs) : rs[k].item = i}

\* Item i's target file was in place, with expected hashes it matches, when
\* the call began
InPlace(i) ==
    /\ root0.files[TargetOf(i)].exists
    /\ Hashed(plan[i])
    /\ is_same_file(root0.files[TargetOf(i)], plan[i].expected_hashes).same

\* The install root as it is when the backup is taken
RootAtBackup == IF args.create_instance_dirs THEN ensure_dirs(root0) ELSE root0

\* C1 (as amended): download_url_to_folder never issues more than
\* max_attempts requests, and when every request was answered with a 5xx
\* status it returns a failure after exactly max_attempts requests.  The
\* installer's task never makes more than max_retries passes, each with at
\* most one request; a task that ran at least one pass, had a download URL on
\* every pass and was answered 5xx every time ends after exactly max_retries
\* requests with a failed result.
C1_RetryBudget ==
    /\ requests <= max_attempts
    /\ (pc = "returned" /\ all_5xx) => (requests = max_attempts /\ ~result.success)
    /\ \A i \in DOMAIN task :
         /\ task[i].requests <= task[i].attempts
         /\ task[i].attempts <= args.max_retries
         /\ (/\ task[i].state = "done"
             /\ task[i].attempts > 0
             /\ task[i].only_5xx
             /\ task[i].requests = task[i].attempts)
            => /\ task[i].requests = args.max_retries
               /\ \E k \in ResultsOf(results, i) : ~results[k].success

\* C1 witness: a call with the largest budget returned after only 5xx answers
C1_Witness ==
    pc = "returned" /\ all_5xx /\ max_attempts = MaxAttempts /\ requests = MaxAttempts

\* C1 as stated: every task that ran and was never answered anything but 5xx
\* issued exactly max_retries requests
C1_Original ==
    /\ requests <= max_attempts
    /\ (pc = "returned" /\ all_5xx) => (requests = max_attempts /\ ~result.success)
    /\ \A i \in DOMAIN task :
         (task[i].state = "done" /\ task[i].attempts > 0 /\ task[i].only_5xx)
            => /\ task[i].requests = args.max_retries
               /\ \E k \in ResultsOf(results, i) : ~results[k].success

\* C2 as stated: when the .part file holds the first N bytes of the resource
\* and a resumed attempt is answered 2xx (the whole resource with 200, or the
\* rest of it with 206) and the call returns a success, the destination file
\* holds exactly the resource.
C2_ResumeCorrect ==
    [][(/\ pc = "loop"
        /\ resume
        /\ part.exists
        /\ IsPrefix(part.data, Resource)
        /\ pc' = "returned"
        /\ result'.success
        /\ (last'.resp.status = 206 \/ last'.resp.body = Resource))
       => dest' = File(Resource)]_vars

C4_RequiredFailures ==
    (ipc = "returned" /\ ~args.dry_run) =>
        /\ report.failed =
             Cardinality({k \in 1..Len(report.results) :
                            /\ ~report.results[k].success
                            /\ args.required[report.results[k].item]})
        /\ report.success = (report.failed = 0)
        /\ \A i \in Planned : ResultsOf(report.results, i) # {}

\* C4 witness: a required item and an optional item both failed
C4_Witness ==
    /\ ipc = "returned"
    /\ ~args.dry_run
    /\ report.failed = 1
    /\ \E k \in 1..Len(report.results) :
         ~report.results[k].success /\ ~args.required[report.results[k].item]

\* C5 (as amended): every report returned has successful + failed <=
\* total_files; the report of a run that is not a dry run has success =
\* (failed = 0); the report of a dry run has success false with failed = 0
\* and successful = 0.
C5_Report ==
    ipc = "returned" =>
        /\ report.successful + report.failed <= report.total_files
        /\ IF args.dry_run
           THEN ~report.success /\ report.failed = 0 /\ report.successful = 0
           ELSE report.success = (report.failed = 0)

\* C5 witness: a dry run of a plan with items returned
C5_Witness == ipc = "returned" /\ args.dry_run /\ report.total_files > 0

\* C5 as stated: every report returned, a dry run's included, has success =
\* (failed = 0) and successful + failed <= total_files
C5_Original ==
    ipc = "returned" =>
        /\ report.success = (report.failed = 0)
        /\ report.successful + report.failed <= report.total_files

\* C6: an item whose target file was in place and matched its expected
\* hashes when the call began gets one result, a success with attempts = 0
\* and downloaded_bytes = 0, and its task makes no request.
C6_Idempotent ==
    \A i \in Planned :
        (InPlace(i) /\ task[i].state = "done") =>
            /\ task[i].requests = 0
            /\ ResultsOf(results, i) # {}
            /\ \A k \in ResultsOf(results, i) :
                 /\ results[k].success
                 /\ results[k].attempts = 0
                 /\ results[k].downloaded_bytes = 0

\* C6 witness: a run returned in which an item was in place
C6_Witness ==
    /\ ipc = "returned"
    /\ ~args.dry_run
    /\ \E i \in Planned : InPlace(i) /\ task[i].state = "done"

\* C7 as stated: after a 429 with a Retry-After of N > 0 seconds, with
\* attempts remaining, the wait before the next attempt is at least N
\* seconds.
C7_RetryAfterHonoured ==
    (/\ pc = "loop"
     /\ attempts > 0
     /\ last.resp.kind = "http"
     /\ last.resp.status = 429
     /\ parse_retry_after(last.resp.retry_after) > 0)
    => wait >= 1000 * parse_retry_after(last.resp.retry_after)

C10_Containment ==
    /\ ipc = "raised" => (results = <<>> /\ \A i \in Planned : task[i].state = "queued")
    /\ ipc = "returned" =>
         /\ Len(report.results) = report.total_files
         /\ report.total_files = Len(plan)
         /\ \A i \in Planned : Cardinality(ResultsOf(report.results, i)) = 1

\* C10 witness: a run returned whose items failed in different ways
C10_Witness ==
    /\ ipc = "returned"
    /\ \E j, k \in 1..Len(report.results) :
         /\ report.results[j].error.kind = "no_url"
         /\ report.results[k].error.kind \in {"http", "network", "stream"}

\* C11 as stated: a dry run returns one placeholder result per planned item
\* and success = false, makes no request, and leaves the filesystem as it was
\* when the call began: the install root unchanged and no backup copied.
C11_DryRun ==
    (ipc = "returned" /\ args.dry_run) =>
        /\ ~report.success
        /\ Len(report.results) = Len(plan)
        /\ \A i \in Planned :
             /\ Cardinality(ResultsOf(report.results, i)) = 1
             /\ task[i].requests = 0
        /\ root = root0
        /\ ~backup.exists

\* C12 as stated: when the manifest source is not found the call raises
\* ManifestError, and no directory has been created when it is raised: the
\* install root is as it was when the call began.
C12_MissingManifest ==
    ipc = "raised" => (root = root0 /\ ~backup.exists)

\* C13 as stated: the planner gives distinct items distinct target paths, and
\* at any time at most one worker is writing a given .part file.
C13_SingleWriter ==
    \A i, j \in DOMAIN items :
        i # j =>
            /\ items[i].target_path # items[j].target_path
            /\ ~(/\ worker[i] = "writing"
                 /\ worker[j] = "writing"
                 /\ temp_part_path(items[i].target_path)
                      = temp_part_path(items[j].target_path))

\* The steps of the calling thread, in the order of the code: directories
\* and manifest, backup, plan, downloads, overrides, rollback, cleanup
PhaseSteps ==
    { <<"start", "backup">>, <<"start", "raised">>, <<"backup", "plan">>,
      <<"plan", "downloading">>, <<"plan", "returned">>,
      <<"downloading", "overrides">>, <<"overrides", "rollback">>,
      <<"rollback", "cleanup">>, <<"cleanup", "returned">> }

\* The phase a step of the calling thread belongs to, as the claim orders
\* them: PLANNING (directories, manifest, plan) 1, BACKUP 2, DOWNLOADING 3,
\* OVERRIDES 4, ROLLBACK 5, DONE 6
ClaimedPhase(at) ==
    CASE at \in {"start", "plan"} -> 1
      [] at = "backup" -> 2
      [] at = "downloading" -> 3
      [] at = "overrides" -> 4
      [] at = "rollback" -> 5
      [] OTHER -> 6

\* No worker is running: every task has returned, or none has begun
NoWorkerRunning ==
    \/ \A i \in DOMAIN task : task[i].state = "done"
    \/ \A i \in DOMAIN task : task[i].state = "queued" /\ task[i].attempts = 0

C15_TerminalNotFound ==
    /\ (/\ attempts > 0
        /\ last.resp.kind = "http"
        /\ last.resp.status \in {404, 410})
       => /\ pc = "returned"
          /\ ~result.success
          /\ result.error = Some(HttpError(last.resp.status))
    /\ \A i \in DOMAIN task :
         (task[i].last_err.kind = "http" /\ task[i].last_err.status \in {404, 410})
            => /\ task[i].state = "done"
               /\ \E k \in ResultsOf(results, i) :
                    ~results[k].success /\ results[k].error = task[i].last_err

\* C16: whenever atomic_write fails, at whichever step, it has raised an
\* error, the temporary file no longer exists, and the destination is exactly
\* as it was before the call (absent, or holding its previous content).
C16_FailureLeavesNoTrace ==
    aw_pc \in {"ValueError", "DownloadError"}
        => /\ ~aw_tmp.exists
           /\ aw_dest = aw_dest0

\* C17: when a call of atomic_write has returned, a reader of the destination
\* has seen, during the call and after it, only the complete previous content
\* (or the absence of the file, if there was none) or the complete new
\* content; never a part of the new content, and never the absence of a file
\* that existed.
C17_Atomicity ==
    aw_pc = "returned"
        => /\ aw_dest = File(Resource)
           /\ aw_seen \subseteq {aw_dest0, File(Resource)}

\* C18: for an existing file, is_same_file returns matches = true exactly when
\* at least one entry of expected_hashes equals, compared without regard to
\* case on the algorithm name and on the digest, the digest computed for that
\* algorithm; for an empty expected_hashes it returns matches = false.
C18_ChecksumComparison ==
    cs_pc = "returned"
        => cs_out.same =
              \E i \in DOMAIN cs_expected :
                  /\ Lower(cs_expected[i].k).name \in Algos
                  /\ Lower(cs_expected[i].v)
                       = Lower(Digest(Lower(cs_expected[i].k).name, cs_file.data))

\* C19: every DownloadResult that download_url_to_folder returns with
\* success = false has path = None, the results for a checksum mismatch and
\* for an exhausted attempt budget included.
C19_FailureHasNoPath ==
    (pc = "returned" /\ ~result.success) => ~result.path

\* C20: when the rollback step of install_from_manifest fails, whether at the
\* removal of the install root or at the move of the backup into place, no
\* exception is raised (the run goes on to its cleanup) and the install root
\* still exists with the files it had when the rollback began.
C20_RollbackFailure ==
    [][(ipc = "rollback" /\ MustRollBack
          /\ args'.rollback \in {"move_failed", "remove_failed"})
        => /\ ipc' = "cleanup"
           /\ root'.exists
           /\ root' = root]_vars

\* A source from which no manifest can be loaded: a path that does not exist,
\* an archive that cannot be read or holds no manifest, a document that is
\* not JSON
NoManifestIn(src) ==
    \/ src.kind = "missing"
    \/ src.kind = "zip" /\ ~src.zip_ok
    \/ src.kind = "zip" /\ {e \in src.entries : IsManifestName(e)} = {}
    \/ src.kind \in {"json", "zip", "other"} /\ ~src.json_ok

\* C21: whenever no manifest document can be located, or the source is
\* neither a record, a parseable document nor a readable archive,
\* _load_manifest fails with ManifestError and with no other exception.
C21_ManifestLoadErrors ==
    (fn_pc # "_load_manifest" /\ fn_in \in Sources /\ NoManifestIn(fn_in))
        => fn_pc = "ManifestError"

\* The components of an entry's name below its first "overrides" component
RECURSIVE BelowOverrides(_)
BelowOverrides(name) ==
    IF name = <<>> THEN <<>>
    ELSE IF Head(name) = "overrides" THEN Tail(name)
    ELSE BelowOverrides(Tail(name))

\* The entries of the archive loaded that lie under a directory "overrides"
OverridesEntries == {e \in fn_in.entries : IsOverridesEntry(e)}

\* C22: for an archive with entries under a directory named "overrides" at
\* any depth, the overrides source path that _load_manifest returns is an
\* existing directory inside the temporary directory of the call, and it
\* holds every such entry at its location relative to that directory.
C22_ArchiveOverrides ==
    (fn_pc = "returned" /\ fn_in \in Sources /\ fn_in.kind = "zip"
       /\ OverridesEntries # {})
        => /\ fn_out.overrides.present
           /\ IsPrefix(tmp_dir, fn_out.overrides.text)
           /\ \E c \in fn_out.created :
                 /\ IsPrefix(fn_out.overrides.text, c.path)
                 /\ c.dir \/ c.path # fn_out.overrides.text
           /\ \A e \in OverridesEntries :
                 ~e.dir =>
                   [path |-> Resolve(<<>>, fn_out.overrides.text \o BelowOverrides(e.name)),
                    dir |-> FALSE] \in fn_out.created

\* C30: every file or directory that _load_manifest creates while it
\* extracts the overrides of an archive lies inside the temporary directory
\* it created for the call.
C30_ExtractionStaysInside ==
    (fn_pc = "returned" /\ fn_in \in Sources /\ fn_in.kind = "zip")
        => \A c \in fn_out.created : IsPrefix(tmp_dir, c.path)

\* C23: when an overrides source was found and no rollback follows, the
\* overrides step leaves every file of the overrides tree at the same
\* relative location under the install root: a file that existed there holds
\* the overrides content when overwrite is permitted and keeps its content
\* when it is not, and a file that did not exist is copied in both cases.
C23_OverridesApplied ==
    [][(ipc = "overrides" /\ overrides'.exists /\ ~MustRollBack)
        => \A n \in Names :
              overrides'.files[n].exists
                => /\ root'.files[n].exists
                   /\ root'.files[n] =
                        IF args'.overwrite \/ ~root.files[n].exists
                        THEN overrides'.files[n]
                        ELSE root.files[n]]_vars

\* The tasks whose results are in the list returned, in the list's order
ResultTasks == [k \in DOMAIN fn_out.results |-> fn_out.results[k].task]

\* Task i completed before task j
CompletedBefore(i, j) ==
    \E m, n \in DOMAIN fn_out.completed :
        m < n /\ fn_out.completed[m] = i /\ fn_out.completed[n] = j

\* One DownloadResult per submitted task, and one call of the callback, when
\* one is given, per task
OnePerTask ==
    /\ Len(fn_out.results) = Len(fn_in.tasks)
    /\ \A i \in BulkTasks :
          /\ Cardinality({k \in DOMAIN ResultTasks : ResultTasks[k] = i}) = 1
          /\ fn_out.called[i] = IF fn_in.progress_cb = "none" THEN 0 ELSE 1

BareName(s) == ~HasChar(s, "/") /\ s \notin {<<".">>, <<".", ".">>}

\* C25: for every Content-Disposition value and fallback URL, the name that
\* get_filename_from_response returns, and the one that
\* get_filename_from_content_disposition returns, is a bare base name: it
\* holds no path separator and is not a traversal component such as "..".
C25_BareBaseName ==
    fn_pc = "returned" /\ fn_in \in [url : Urls, header : Headers, fallback_url : Urls]
        => /\ fn_out.filename.present => BareName(fn_out.filename.text)
           /\ fn_out.from_header.present => BareName(fn_out.from_header.text)

\* C27: for a response whose body streams without error,
\* write_stream_to_tempfile returns dest; after it returns, dest holds the
\* streamed bytes and the .part file no longer exists.
C27_StreamPromoted ==
    (fn_pc \in {"returned", "DownloadError"} /\ fn_in \in StreamCalls
       /\ Complete(fn_in.resp))
        => /\ fn_pc = "returned"
           /\ ~fn_out.part.exists
           /\ fn_out.dest.exists
           /\ Len(fn_in.resp.body) <= Len(fn_out.dest.data)
           /\ fn_in.resp.body =
                SubSeq(fn_out.dest.data,
                       Len(fn_out.dest.data) - Len(fn_in.resp.body) + 1,
                       Len(fn_out.dest.data))

\* Every pass of item i's task made a request that was answered 200 with the
\* whole resource: a pass receives at most ResLen bytes, and the bytes the
\* passes received are in the item's files, which were absent at the start
HealthyPasses(i) ==
    /\ ~root0.files[TargetOf(i)].exists
    /\ ~root0.files[PartOf(i)].exists
    /\ task[i].attempts >= 1
    /\ task[i].requests = task[i].attempts
    /\ Len(root.files[PartOf(i)].data) + Len(root.files[TargetOf(i)].data)
         = task[i].attempts * ResLen

\* C26: if the plan is non-empty, no target file exists yet, and every
\* download request is answered 200 with a body that streams without error
\* and matches the item's hashes, then when the downloads are over every
\* result is successful (successful = total_files, success = true) and each
\* target file is present with the served content.
C26_HealthyInstall ==
    (ipc = "overrides" /\ Planned # {} /\ \A i \in Planned : HealthyPasses(i))
        => /\ report.successful = report.total_files
           /\ report.success
           /\ \A i \in Planned : root.files[TargetOf(i)] = File(Resource)

\* C29: in the installer's per-item task, across every sequence of attempts,
\* the bytes of the .part file are a prefix of the remote resource: a .part
\* file left by an earlier attempt is never extended with the body of a
\* request that did not ask for the matching byte range.
C29_InstallerPartIsPrefix ==
    \A i \in Items :
        root.files[PartOf(i)].exists => IsPrefix(root.files[PartOf(i)].data, Resource)

\* C28: if a file exists at the destination before download_url_to_folder is
\* called and the call ends in failure, the file at the destination is
\* unchanged: it still exists with its previous content.
C28_FailureKeepsExisting ==
    (pc = "returned" /\ ~result.success /\ dest0.exists) => dest = dest0

====
